---- MODULE Spec2Model ----
(***************************************************************************)
(* A model of the tiny_ecs Manager (src/src/ecs/Manager.cpp): the system   *)
(* scheduler (registration, removal, priorities, the update tick and the   *)
(* teardown) and the component pool behind CreateComponent /               *)
(* DestroyComponent / GetComponent as used by src/main.cpp.                *)
(*                                                                         *)
(* A system is identified by the number of its registration (1, 2, ...):   *)
(* the model's stand-in for the System* the manager stores.  A system      *)
(* whose object has been deleted (erased from m_systemsStorage) may still  *)
(* be referenced from m_newSystems, m_removedSystems or m_orderedSystems.  *)
(* Every use of such a dangling pointer is undefined behaviour, modelled   *)
(* as a choice between the program stopping (pc = Crashed) and the call    *)
(* going through on the stale object, whose fields still read as they were *)
(* when it was deleted.                                                    *)
(*                                                                         *)
(* Init and Update callbacks may call back into the manager               *)
(* (RegisterSystem, RemoveSystem, a priority change); a Destroy callback   *)
(* is modelled as a leaf that only is recorded.                            *)
(***************************************************************************)
EXTENDS Integers, Sequences, FiniteSets, TLC

\* ------------------------------------------------------------------ bounds
MaxSystems == 3
MaxPriority == 1
MaxRemoved == 2
ChunkSize == 2
MaxSlots == 3
MaxGeneration == 2
MaxValue == 1
MaxCalls == 7
MaxTypes == 2
MaxNames == 2
MaxTags == 2
MaxEntities == 3

Systems == 1..MaxSystems
Priorities == 0..MaxPriority
\* The system classes: every registration of this model is of a class of its
\* own, so typeid(*s) is the registration number.
Types == Systems

VARIABLES
    m_systemsStorage,        \* the systems owned, in push_back order
    m_systemsTypeIdMapping,  \* type -> system, 0 where the map has no entry
    m_newSystems,            \* sequence of <<system, mustBeAddedToOrderedSystemsList>>
    m_orderedSystems,        \* sequence of systems
    m_removedSystems,        \* sequence of systems
    m_isUpdatingSystems,
    m_systemPrioritiesChanged,
    priority,                \* priority[s]: the priority of system s (stale once s is deleted)
    sysType,                 \* sysType[s]: typeid(*s)
    pc,                      \* where Manager::Update stands: the callback that is running
    \* history, read by the properties only
    op,                      \* the top-level Manager call in progress or last completed
    calls,                   \* the callbacks made by that call, in order
    orderedAtStart,          \* <<system, priority>> of m_orderedSystems when the call's loop over it began
    insertedOrder,           \* the systems of m_orderedSystems in the order they were inserted
    registeredInPass,        \* the systems registered while m_isUpdatingSystems was set
    initCount,               \* initCount[s]: the Init calls made on s
    removedBy,               \* removedBy[s]: what deleted s ("none" while it is held)
    priorityEverChanged,     \* some system's priority has been changed
    \* components
    m_componentStorages,     \* the component collections, by ComponentTypeId (from 0)
    handles,                 \* history: every handle CreateComponent has returned, with what
                             \* its owner knows of the component (live, pointer, value written)
    poolOp,                  \* history: the last component operation and the slot it was for
    \* component registry
    m_componentNameToIdMapping,            \* name -> ComponentTypeId
    m_componentTypeIndexes,                \* the type tags, by ComponentTypeId (from 0)
    m_typeIndexToComponentTypeIdMapping,   \* type tag -> ComponentTypeId
    registryCall,            \* history: the last registry call, its argument and what it returned
    registered,              \* history: the registrations since construction or Destroy, in order
    \* tuple caches
    m_tupleCaches,           \* hash -> the type-id list the cache was constructed with
    tupleCall,               \* history: the last tuple cache call, its argument and what it returned
    registeredTuples,        \* history: the lists RegisterComponentsTupleIterator was called with
    \* entities
    m_entitiesData,          \* the entities, by EntityId (from 1)
    entityOp,                \* history: the last entity operation and whether it was rejected
    \* the process-wide singleton
    ManagerInstance,         \* the instance the pointer designates, 0 for nullptr
    liveInstances,           \* the Manager objects allocated by new and not deleted
    lifecycle                \* history: the InitECSManager / ShutdownECSManager calls made, in order

poolVars == << m_componentStorages, handles, poolOp >>

registryVars == << m_componentNameToIdMapping, m_componentTypeIndexes,
                   m_typeIndexToComponentTypeIdMapping, registryCall, registered >>

tupleVars == << m_tupleCaches, tupleCall, registeredTuples >>

entityVars == << m_entitiesData, entityOp >>

singletonVars == << ManagerInstance, liveInstances, lifecycle >>

extraVars == << registryVars, tupleVars, entityVars, singletonVars >>

vars == << m_systemsStorage, m_systemsTypeIdMapping, m_newSystems, m_orderedSystems,
           m_removedSystems, m_isUpdatingSystems, m_systemPrioritiesChanged,
           priority, sysType, pc, op, calls, orderedAtStart, insertedOrder,
           registeredInPass, initCount, removedBy, priorityEverChanged,
           m_componentStorages, handles, poolOp,
           m_componentNameToIdMapping, m_componentTypeIndexes,
           m_typeIndexToComponentTypeIdMapping, registryCall, registered,
           m_tupleCaches, tupleCall, registeredTuples, m_entitiesData, entityOp,
           ManagerInstance, liveInstances, lifecycle >>

\* ------------------------------------------------------------- helpers
Range(seq) == { seq[i] : i \in 1..Len(seq) }

IndexOf(seq, x) ==
    IF x \in Range(seq)
    THEN CHOOSE i \in 1..Len(seq) : seq[i] = x /\ \A j \in 1..(i-1) : seq[j] /= x
    ELSE 0

InsertAt(seq, pos, x) == SubSeq(seq, 1, pos - 1) \o << x >> \o SubSeq(seq, pos, Len(seq))

\* vector::erase(find(x)): the first occurrence, if any
EraseFirst(seq, x) ==
    LET i == IndexOf(seq, x)
    IN  IF i = 0 THEN seq ELSE SubSeq(seq, 1, i - 1) \o SubSeq(seq, i + 1, Len(seq))

Idle == [phase |-> "idle", idx |-> 0, end |-> 0, inval |-> FALSE]

Crashed == [Idle EXCEPT !.phase = "crashed"]

\* -------------------------------------------------- the manager as a record
Cur ==
    [ m_systemsStorage |-> m_systemsStorage,
      m_systemsTypeIdMapping |-> m_systemsTypeIdMapping,
      m_newSystems |-> m_newSystems,
      m_orderedSystems |-> m_orderedSystems,
      m_removedSystems |-> m_removedSystems,
      m_isUpdatingSystems |-> m_isUpdatingSystems,
      m_systemPrioritiesChanged |-> m_systemPrioritiesChanged,
      priority |-> priority,
      sysType |-> sysType,
      pc |-> pc,
      op |-> op,
      calls |-> calls,
      orderedAtStart |-> orderedAtStart,
      insertedOrder |-> insertedOrder,
      registeredInPass |-> registeredInPass,
      initCount |-> initCount,
      removedBy |-> removedBy,
      priorityEverChanged |-> priorityEverChanged ]

Install(st) ==
    /\ m_systemsStorage' = st.m_systemsStorage
    /\ m_systemsTypeIdMapping' = st.m_systemsTypeIdMapping
    /\ m_newSystems' = st.m_newSystems
    /\ m_orderedSystems' = st.m_orderedSystems
    /\ m_removedSystems' = st.m_removedSystems
    /\ m_isUpdatingSystems' = st.m_isUpdatingSystems
    /\ m_systemPrioritiesChanged' = st.m_systemPrioritiesChanged
    /\ priority' = st.priority
    /\ sysType' = st.sysType
    /\ pc' = st.pc
    /\ op' = st.op
    /\ calls' = st.calls
    /\ orderedAtStart' = st.orderedAtStart
    /\ insertedOrder' = st.insertedOrder
    /\ registeredInPass' = st.registeredInPass
    /\ initCount' = st.initCount
    /\ removedBy' = st.removedBy
    /\ priorityEverChanged' = st.priorityEverChanged
    /\ UNCHANGED << poolVars, extraVars >>

\* Manager::Manager(): every container empty, both flags false.
Manager ==
    [ m_systemsStorage |-> << >>,
      m_systemsTypeIdMapping |-> [t \in Types |-> 0],
      m_newSystems |-> << >>,
      m_orderedSystems |-> << >>,
      m_removedSystems |-> << >>,
      m_isUpdatingSystems |-> FALSE,
      m_systemPrioritiesChanged |-> FALSE,
      priority |-> << >>,
      sysType |-> << >>,
      pc |-> Idle,
      op |-> "none",
      calls |-> << >>,
      orderedAtStart |-> << >>,
      insertedOrder |-> << >>,
      registeredInPass |-> {},
      initCount |-> << >>,
      removedBy |-> << >>,
      priorityEverChanged |-> FALSE ]

\* The system's object has been deleted: a pointer to it dangles.
Dead(st, s) == s \notin Range(st.m_systemsStorage)

\* The program has stopped; nothing of its state is left.
Crash(st) == [Manager EXCEPT !.pc = Crashed]

Call(st, what, s) == [st EXCEPT !.calls = Append(@, << what, s >>)]

\* m_orderedSystems with the priorities of the moment
Snapshot(st) ==
    [i \in 1..Len(st.m_orderedSystems) |->
        << st.m_orderedSystems[i], st.priority[st.m_orderedSystems[i]] >>]

\* ------------------------------------------------------ ordered systems list
\* System::operator< as the predicates of lines 147-150 and 209-212 use it:
\* by priority.
SystemLess(prio, a, b) == prio[a] < prio[b]

\* Mutant of UpperBound: std::lower_bound, which ends before the equal elements.
RECURSIVE LowerBound(_, _, _, _, _)
LowerBound(list, prio, s, first, len) ==
    IF len = 0 THEN first
    ELSE LET half == len \div 2
             middle == first + half
         IN  IF SystemLess(prio, list[middle], s)
             THEN LowerBound(list, prio, s, middle + 1, len - half - 1)
             ELSE LowerBound(list, prio, s, first, half)

\* std::upper_bound(first, first + len, s, predicate): the halving search, which
\* on a list that is not sorted by priority still ends at some position.
RECURSIVE UpperBound(_, _, _, _, _)
UpperBound(list, prio, s, first, len) ==
    IF len = 0 THEN first
    ELSE LET half == len \div 2
             middle == first + half
         IN  IF SystemLess(prio, s, list[middle])
             THEN UpperBound(list, prio, s, first, half)
             ELSE UpperBound(list, prio, s, middle + 1, len - half - 1)

AddSystemToOrderedSystemsList(st, s) ==
    IF st.m_isUpdatingSystems
    THEN Crash(st)   \* assert(!m_isUpdatingSystems)
    ELSE LET pos == UpperBound(st.m_orderedSystems, st.priority, s, 1, Len(st.m_orderedSystems))
         IN  [st EXCEPT !.m_orderedSystems = InsertAt(@, pos, s),
                        !.insertedOrder = Append(@, s)]

\* std::stable_sort by the predicate: each element goes behind the elements
\* before it that are not greater.
RECURSIVE StableSort(_, _, _)
StableSort(list, prio, n) ==
    IF n = 0 THEN << >>
    ELSE LET sorted == StableSort(list, prio, n - 1)
             x == list[n]
             pos == 1 + Cardinality({ i \in 1..Len(sorted) : ~SystemLess(prio, x, sorted[i]) })
         IN  InsertAt(sorted, pos, x)

SortOrderedSystemsList(st) ==
    [st EXCEPT !.m_orderedSystems = StableSort(@, st.priority, Len(@)),
               !.m_systemPrioritiesChanged = FALSE]

\* ------------------------------------------------------------ removal
\* by: the caller, for the history only.
DoRemoveSystem(st, s, by) ==
    LET st1 == Call(st, "Destroy", s)
    IN  [st1 EXCEPT !.m_systemsTypeIdMapping = [@ EXCEPT ![st.sysType[s]] = 0],
                    !.m_orderedSystems = EraseFirst(@, s),
                    !.insertedOrder = IF s \in Range(st.m_orderedSystems) THEN EraseFirst(@, s) ELSE @,
                    !.m_systemsStorage = EraseFirst(@, s),
                    !.removedBy = IF @[s] = "none" THEN [@ EXCEPT ![s] = by] ELSE @]

\* Manager::Update, lines 183-192: the outcomes of the drain from entry k on.
RECURSIVE DrainRemoved(_, _)
DrainRemoved(st, k) ==
    IF k > Len(st.m_removedSystems)
    THEN { [st EXCEPT !.m_removedSystems = << >>, !.pc = Idle] }
    ELSE LET s == st.m_removedSystems[k]
         IN  (IF Dead(st, s) THEN { Crash(st) } ELSE {})
             \cup DrainRemoved(DoRemoveSystem(st, s, "drain"), k + 1)

\* ------------------------------------------------------------ update pass
\* UpdateSystems from the j-th system of the list on: up to the next Update
\* callback, or through the end of the pass and the drain that follows it.
ContinuePass(st, j) ==
    IF j > Len(st.m_orderedSystems)
    THEN DrainRemoved([st EXCEPT !.m_isUpdatingSystems = FALSE], 1)
    ELSE LET s == st.m_orderedSystems[j]
         IN  { [Call(st, "Update", s) EXCEPT !.pc = [phase |-> "update", idx |-> j, end |-> 0, inval |-> FALSE]] }
             \cup (IF Dead(st, s) THEN { Crash(st) } ELSE {})

UpdateSystems(st) ==
    ContinuePass([st EXCEPT !.m_isUpdatingSystems = TRUE, !.orderedAtStart = Snapshot(st)], 1)

\* Manager::Update, lines 176-192.
AfterNewSystems(st) ==
    IF st.m_systemPrioritiesChanged
    THEN UpdateSystems(SortOrderedSystemsList(st))
         \cup (IF Len(st.m_orderedSystems) > 1 /\ \E s \in Range(st.m_orderedSystems) : Dead(st, s)
               THEN { Crash(st) } ELSE {})
    ELSE UpdateSystems(st)

\* Manager::Update, lines 160-173: the loop over m_newSystems from entry i on, up
\* to the next Init callback.  end is the loop's end iterator, taken when the
\* loop began; inval says that an emplace_back has been made since, so that the
\* iterator may point into a buffer that was freed.
ContinueInit(st, i, end, inval) ==
    IF i > end
    THEN AfterNewSystems([st EXCEPT !.m_newSystems = << >>])
    ELSE LET s == st.m_newSystems[i][1]
             mustBeAddedToOrderedSystemsList == st.m_newSystems[i][2]
             st1 == IF mustBeAddedToOrderedSystemsList
                    THEN AddSystemToOrderedSystemsList(st, s)
                    ELSE st
         IN  { IF st1.pc = Crashed THEN st1
               ELSE [Call(st1, "Init", s) EXCEPT
                        !.initCount[s] = @ + 1,
                        !.pc = [phase |-> "init", idx |-> i, end |-> end, inval |-> inval]] }
             \cup (IF Dead(st, s) \/ inval THEN { Crash(st) } ELSE {})

\* Mutant of AddSystem: the new system is never marked for insertion.
AddSystem_NeverMarked(st, s) ==
    LET st1 == [st EXCEPT !.m_systemsTypeIdMapping =
                              IF @[st.sysType[s]] = 0 THEN [@ EXCEPT ![st.sysType[s]] = s] ELSE @,
                          !.m_newSystems = Append(@, << s, FALSE >>),
                          !.registeredInPass = IF st.m_isUpdatingSystems THEN @ \cup {s} ELSE @]
    IN  IF ~st.m_isUpdatingSystems
        THEN AddSystemToOrderedSystemsList(st1, s)
        ELSE st1

\* Mutant of AddSystem: the new system goes to the front of m_newSystems.
AddSystem_Prepends(st, s) ==
    LET st1 == [st EXCEPT !.m_systemsTypeIdMapping =
                              IF @[st.sysType[s]] = 0 THEN [@ EXCEPT ![st.sysType[s]] = s] ELSE @,
                          !.m_newSystems = << << s, st.m_isUpdatingSystems >> >> \o @,
                          !.registeredInPass = IF st.m_isUpdatingSystems THEN @ \cup {s} ELSE @]
    IN  IF ~st.m_isUpdatingSystems
        THEN AddSystemToOrderedSystemsList(st1, s)
        ELSE st1

\* ------------------------------------------------------------ registration
AddSystem(st, s) ==
    LET st1 == [st EXCEPT !.m_systemsTypeIdMapping =
                              IF @[st.sysType[s]] = 0 THEN [@ EXCEPT ![st.sysType[s]] = s] ELSE @,
                          !.m_newSystems = Append(@, << s, st.m_isUpdatingSystems >>),
                          !.registeredInPass = IF st.m_isUpdatingSystems THEN @ \cup {s} ELSE @]
    IN  IF ~st.m_isUpdatingSystems
        THEN AddSystemToOrderedSystemsList(st1, s)
        ELSE st1

\* The new system object (priority p, class t) is moved into the storage.
AddSystemToStorage(st, p, t) ==
    LET s == Len(st.priority) + 1
    IN  AddSystem([st EXCEPT !.m_systemsStorage = Append(@, s),
                             !.priority = Append(@, p),
                             !.sysType = Append(@, t),
                             !.initCount = Append(@, 0),
                             !.removedBy = Append(@, "none")], s)

\* A top-level call (the manager is not inside Update) starts a new record of
\* callbacks.
TopLevel(st, name) ==
    IF st.pc = Idle
    THEN [st EXCEPT !.op = name, !.calls = << >>, !.orderedAtStart = << >>]
    ELSE st

Running == pc.phase \in {"idle", "init", "update"}

\* ------------------------------------------------------------------ actions
\* The scheduler of a newly constructed Manager.
InitSystems ==
    /\ m_systemsStorage = Manager.m_systemsStorage
    /\ m_systemsTypeIdMapping = Manager.m_systemsTypeIdMapping
    /\ m_newSystems = Manager.m_newSystems
    /\ m_orderedSystems = Manager.m_orderedSystems
    /\ m_removedSystems = Manager.m_removedSystems
    /\ m_isUpdatingSystems = Manager.m_isUpdatingSystems
    /\ m_systemPrioritiesChanged = Manager.m_systemPrioritiesChanged
    /\ priority = Manager.priority
    /\ sysType = Manager.sysType
    /\ pc = Manager.pc
    /\ op = Manager.op
    /\ calls = Manager.calls
    /\ orderedAtStart = Manager.orderedAtStart
    /\ insertedOrder = Manager.insertedOrder
    /\ registeredInPass = Manager.registeredInPass
    /\ initCount = Manager.initCount
    /\ removedBy = Manager.removedBy
    /\ priorityEverChanged = Manager.priorityEverChanged

\* No component type, no tuple cache, no entity; ManagerInstance = nullptr.
InitRest ==
    /\ m_componentNameToIdMapping = << >>
    /\ m_componentTypeIndexes = << >>
    /\ m_typeIndexToComponentTypeIdMapping = << >>
    /\ registryCall = [call |-> "none", key |-> << >>, status |-> "ok", value |-> 0,
                       created |-> FALSE]
    /\ registered = << >>
    /\ m_tupleCaches = << >>
    /\ tupleCall = [call |-> "none", key |-> << >>, found |-> FALSE, cache |-> << >>]
    /\ registeredTuples = {}
    /\ m_entitiesData = << >>
    /\ entityOp = [kind |-> "none", entity |-> 0, child |-> 0, rejected |-> FALSE]
    /\ ManagerInstance = 0
    /\ liveInstances = {}
    /\ lifecycle = << >>

\* A newly constructed Manager: no system, no component type.
Init ==
    /\ InitSystems
    /\ InitRest
    /\ m_componentStorages = << >>
    /\ handles = << >>
    /\ poolOp = [kind |-> "none", index |-> 0]

\* Manager::RegisterSystem<S>() with a new system of priority p and class t,
\* called by the program or from inside an Init or Update callback.
RegisterSystem(p, t) ==
    /\ Running
    /\ Len(priority) < MaxSystems
    /\ LET st == AddSystemToStorage(TopLevel(Cur, "RegisterSystem"), p, t)
       IN  Install(IF pc.phase = "init" /\ st.pc /= Crashed THEN [st EXCEPT !.pc.inval = TRUE] ELSE st)

\* Mutant of RemoveSystem: the removal is made at once, also during a pass.
RemoveSystem_Immediate(s) ==
    /\ Running
    /\ s \in Range(m_systemsStorage)
    /\ Install(DoRemoveSystem(TopLevel(Cur, "RemoveSystem"), s, "RemoveSystem"))

\* Manager::RemoveSystem(system), for a system the manager holds.
RemoveSystem(s) ==
    /\ Running
    /\ s \in Range(m_systemsStorage)
    /\ IF m_isUpdatingSystems
       THEN /\ Len(m_removedSystems) < MaxRemoved
            /\ Install([Cur EXCEPT !.m_removedSystems = Append(@, s)])
       ELSE Install(DoRemoveSystem(TopLevel(Cur, "RemoveSystem"), s, "RemoveSystem"))

\* Mutant of NotifySystemPriorityChanged: the flag is not set.
NotifySystemPriorityChanged_Forgets(st) == st

NotifySystemPriorityChanged(st) == [st EXCEPT !.m_systemPrioritiesChanged = TRUE]

\* The priority of a system the manager holds is set to p and the change is
\* announced.
ChangePriority(s, p) ==
    /\ Running
    /\ s \in Range(m_systemsStorage)
    /\ p /= priority[s]
    /\ Install(NotifySystemPriorityChanged(
                 [TopLevel(Cur, "ChangePriority") EXCEPT !.priority[s] = p,
                                                         !.priorityEverChanged = TRUE]))

\* Manager::Update() is called: it runs up to its first callback.
Update ==
    /\ pc = Idle
    /\ \E st \in (IF m_newSystems /= << >>
                  THEN ContinueInit(TopLevel(Cur, "Update"), 1, Len(m_newSystems), FALSE)
                  ELSE AfterNewSystems(TopLevel(Cur, "Update"))) : Install(st)

\* The Init callback returns: Manager::Update goes on to the next callback.
InitReturn ==
    /\ pc.phase = "init"
    /\ \E st \in ContinueInit(Cur, pc.idx + 1, pc.end, pc.inval) : Install(st)

\* The Update callback returns.
UpdateReturn ==
    /\ pc.phase = "update"
    /\ \E st \in ContinuePass(Cur, pc.idx + 1) : Install(st)

\* Mutant of DestroySystems: the list is walked from its end.
RECURSIVE DestroySystems_Reverse(_, _)
DestroySystems_Reverse(st, k) ==
    IF k > Len(st.m_orderedSystems)
    THEN { [st EXCEPT !.m_systemsTypeIdMapping = [t \in Types |-> 0],
                      !.m_systemsStorage = << >>,
                      !.m_orderedSystems = << >>,
                      !.insertedOrder = << >>,
                      !.removedBy = [s \in DOMAIN @ |-> IF @[s] = "none" THEN "Destroy" ELSE @[s]]] }
    ELSE LET s == st.m_orderedSystems[Len(st.m_orderedSystems) + 1 - k]
         IN  (IF Dead(st, s) THEN { Crash(st) } ELSE {})
             \cup DestroySystems_Reverse(Call(st, "Destroy", s), k + 1)

\* Manager::Destroy, lines 117-123: the outcomes from the k-th system on.
RECURSIVE DestroySystems(_, _)
DestroySystems(st, k) ==
    IF k > Len(st.m_orderedSystems)
    THEN { [st EXCEPT !.m_systemsTypeIdMapping = [t \in Types |-> 0],
                      !.m_systemsStorage = << >>,
                      !.m_orderedSystems = << >>,
                      !.insertedOrder = << >>,
                      !.removedBy = [s \in DOMAIN @ |-> IF @[s] = "none" THEN "Destroy" ELSE @[s]]] }
    ELSE LET s == st.m_orderedSystems[k]
         IN  (IF Dead(st, s) THEN { Crash(st) } ELSE {})
             \cup DestroySystems(Call(st, "Destroy", s), k + 1)

\* Manager::Destroy()
Destroy ==
    /\ pc = Idle
    /\ \E st \in DestroySystems([TopLevel(Cur, "Destroy") EXCEPT !.orderedAtStart = Snapshot(Cur)], 1) : Install(st)

Next ==
    \/ \E p \in Priorities : RegisterSystem(p, Len(priority) + 1)
    \/ \E s \in Systems : RemoveSystem(s)
    \/ \E s \in Systems, p \in Priorities : ChangePriority(s, p)
    \/ Update
    \/ InitReturn
    \/ UpdateReturn
    \/ Destroy

Spec == Init /\ [][Next]_vars

\* ------------------------------------------------------- the component pool
\* The pool behind a component collection: chunks of ChunkSize slots that are
\* never moved once allocated, a high-water mark of the slots handed out, and
\* a free list threaded through the dead slots (a dead slot's payload holds
\* the index of the next free slot, -1 at the end of the list).
Values == 0..MaxValue

systemVars == << m_systemsStorage, m_systemsTypeIdMapping, m_newSystems, m_orderedSystems,
                 m_removedSystems, m_isUpdatingSystems, m_systemPrioritiesChanged,
                 priority, sysType, pc, op, calls, orderedAtStart, insertedOrder,
                 registeredInPass, initCount, removedBy, priorityEverChanged >>

EmptySlot == [alive |-> FALSE, generation |-> 0, payload |-> 0]

EmptyPool == [chunks |-> << >>, size |-> 0, freeHead |-> -1]

\* What a failed lookup returns.
Null == [ptr |-> << 0, 0 >>, value |-> 0]

\* chunks[index / chunkSize][index % chunkSize]
SlotAt(pool, index) ==
    pool.chunks[(index \div ChunkSize) + 1].slots[(index % ChunkSize) + 1]

\* The address of slot `index`: the address of its chunk and the offset in it.
PointerTo(pool, index) ==
    << pool.chunks[(index \div ChunkSize) + 1].addr, index % ChunkSize >>

SetSlot(pool, index, slot) ==
    [pool EXCEPT !.chunks[(index \div ChunkSize) + 1].slots[(index % ChunkSize) + 1] = slot]

\* A write through a raw pointer: to the chunk at that address, wherever the
\* pool lists it.
WriteAt(pool, ptr, v) ==
    [pool EXCEPT !.chunks =
        [c \in 1..Len(@) |->
            IF @[c].addr = ptr[1]
            THEN [@[c] EXCEPT !.slots[ptr[2] + 1].payload = v]
            ELSE @[c]]]

\* One more chunk, at an address of its own; the chunks there are stay put.
Grow(pool) ==
    [pool EXCEPT !.chunks =
        Append(@, [addr |-> Len(@) + 1, slots |-> [o \in 1..ChunkSize |-> EmptySlot]])]

\* allocate(): the head of the free list if there is one, else the next unused
\* slot, growing by a chunk at a chunk boundary.  The slot's generation is left
\* as it is; its payload is constructed anew.
PoolAllocate(pool) ==
    IF pool.freeHead /= -1
    THEN LET i == pool.freeHead
             sl == SlotAt(pool, i)
         IN  [pool |-> SetSlot([pool EXCEPT !.freeHead = sl.payload], i,
                               [sl EXCEPT !.alive = TRUE, !.payload = 0]),
              index |-> i]
    ELSE LET i == pool.size
             grown == IF i = Len(pool.chunks) * ChunkSize THEN Grow(pool) ELSE pool
         IN  [pool |-> SetSlot([grown EXCEPT !.size = i + 1], i,
                               [SlotAt(grown, i) EXCEPT !.alive = TRUE, !.payload = 0]),
              index |-> i]

\* free(index): the slot dies, its generation goes up by one and it becomes the
\* head of the free list, its payload now the link to the former head.
PoolFree(pool, index) ==
    LET sl == SlotAt(pool, index)
    IN  SetSlot([pool EXCEPT !.freeHead = index], index,
                [alive |-> FALSE, generation |-> sl.generation + 1, payload |-> pool.freeHead])

\* at(index, generation): the slot, if it is alive and of that generation.
PoolAt(pool, index, generation) ==
    IF /\ index < pool.size
       /\ SlotAt(pool, index).alive
       /\ SlotAt(pool, index).generation = generation
    THEN [ptr |-> PointerTo(pool, index), value |-> SlotAt(pool, index).payload]
    ELSE Null

\* Manager::GetCollection(typeId)
GetCollection(storages, typeId) == storages[typeId + 1]

\* Manager::CreateComponentInternal(typeId)
CreateComponentInternal(storages, typeId) ==
    LET r == PoolAllocate(GetCollection(storages, typeId))
    IN  [storages |-> [storages EXCEPT ![typeId + 1] = r.pool], index |-> r.index]

ReleaseComponent_Forgets(storages, componentType, index) == storages

ReleaseComponent_FirstSlot(storages, componentType, index) ==
    [storages EXCEPT ![componentType + 1] = PoolFree(GetCollection(storages, componentType), 0)]

\* Manager::ReleaseComponent(componentType, index)
ReleaseComponent(storages, componentType, index) ==
    [storages EXCEPT ![componentType + 1] = PoolFree(GetCollection(storages, componentType), index)]

\* manager.GetComponent<T>(handle)
GetComponent(h) ==
    PoolAt(GetCollection(m_componentStorages, h.typeId), h.index, h.generation)

\* The program of main.cpp once RegisterComponentType<StaticMesh>() has given
\* the manager its one collection, of type id 0.
InitPool ==
    /\ InitSystems
    /\ InitRest
    /\ m_componentStorages = << EmptyPool >>
    /\ handles = << >>
    /\ poolOp = [kind |-> "none", index |-> 0]

\* handles[i] = manager.CreateComponent<StaticMesh>(meshes[i])
CreateComponent ==
    /\ \/ GetCollection(m_componentStorages, 0).freeHead /= -1
       \/ GetCollection(m_componentStorages, 0).size < MaxSlots
    /\ LET r == CreateComponentInternal(m_componentStorages, 0)
           pool == GetCollection(r.storages, 0)
           h == [typeId |-> 0, index |-> r.index,
                 generation |-> SlotAt(pool, r.index).generation]
       IN  /\ m_componentStorages' = r.storages
           /\ handles' = handles @@
                  (h :> [live |-> TRUE, ptr |-> PointerTo(pool, r.index), value |-> 0])
           /\ poolOp' = [kind |-> "create", index |-> r.index]
    /\ UNCHANGED << systemVars, extraVars >>

\* meshes[i]->colorA = v: a write through the pointer CreateComponent gave out
WriteComponent(h, v) ==
    /\ handles[h].live
    /\ handles[h].value /= v
    /\ m_componentStorages' =
           [m_componentStorages EXCEPT ![h.typeId + 1] = WriteAt(@, handles[h].ptr, v)]
    /\ handles' = [handles EXCEPT ![h].value = v]
    /\ poolOp' = [kind |-> "write", index |-> h.index]
    /\ UNCHANGED << systemVars, extraVars >>

\* manager.DestroyComponent(handle), of a component that is alive
DestroyComponent(h) ==
    /\ handles[h].live
    /\ h.generation < MaxGeneration
    /\ m_componentStorages' = ReleaseComponent(m_componentStorages, h.typeId, h.index)
    /\ handles' = [handles EXCEPT ![h] = [@ EXCEPT !.live = FALSE, !.value = 0]]
    /\ poolOp' = [kind |-> "destroy", index |-> h.index]
    /\ UNCHANGED << systemVars, extraVars >>

NextPool ==
    \/ CreateComponent
    \/ \E h \in DOMAIN handles, v \in Values : WriteComponent(h, v)
    \/ \E h \in DOMAIN handles : DestroyComponent(h)

SpecPool == InitPool /\ [][NextPool]_vars

\* ------------------------------------------------- the process-wide singleton
\* The file-static ManagerInstance pointer and the Manager objects on the heap.
\* A Manager object is identified by the number of the InitECSManager call
\* that allocated it.
allButSingleton == << systemVars, poolVars, registryVars, tupleVars, entityVars >>

\* Manager::Get()
Get == ManagerInstance

\* Manager::InitECSManager()
InitECSManager ==
    /\ Len(lifecycle) < MaxCalls
    /\ LET m == Cardinality({ i \in 1..Len(lifecycle) : lifecycle[i] = "Init" }) + 1
       IN  /\ ManagerInstance' = m
           /\ liveInstances' = liveInstances \cup { m }
    /\ lifecycle' = Append(lifecycle, "Init")
    /\ UNCHANGED allButSingleton

ShutdownECSManager_KeepsPointer ==
    /\ Len(lifecycle) < MaxCalls
    /\ liveInstances' = liveInstances \ { ManagerInstance }
    /\ ManagerInstance' = ManagerInstance
    /\ lifecycle' = Append(lifecycle, "Shutdown")
    /\ UNCHANGED allButSingleton

\* Manager::ShutdownECSManager(): Destroy() on the instance, which holds no
\* system and no component type here, then delete
ShutdownECSManager ==
    /\ Len(lifecycle) < MaxCalls
    /\ IF ManagerInstance /= 0
       THEN /\ liveInstances' = liveInstances \ { ManagerInstance }
            /\ ManagerInstance' = 0
       ELSE UNCHANGED << ManagerInstance, liveInstances >>
    /\ lifecycle' = Append(lifecycle, "Shutdown")
    /\ UNCHANGED allButSingleton

NextSingleton ==
    \/ InitECSManager
    \/ ShutdownECSManager

SpecSingleton == Init /\ [][NextSingleton]_vars

\* ------------------------------------------------------ component registry
\* Component names and type tags (std::type_index values) are numbered from 1.
Names == 1..MaxNames

TypeTags == 1..MaxTags

allButRegistry == << systemVars, handles, poolOp, tupleVars, entityVars, singletonVars >>

\* const std::string k_invalidComponentName = "[UNDEFINED]", as a number that
\* names no component
k_invalidComponentName == 0

\* Manager::GetInvalidComponentTypeId(): std::numeric_limits<ComponentTypeId>::max()
GetInvalidComponentTypeId == 255

\* The type-ids handed to the calls: the registrable ones, one above, and the
\* invalid id.
TypeIds == 0..MaxTypes \cup { GetInvalidComponentTypeId }

RegistryRunning == registryCall.status /= "crash"

Returned(call, key, status, value, created) ==
    [call |-> call, key |-> key, status |-> status, value |-> value, created |-> created]

\* Manager::GetComponentTypeIdByIndex(typeIndex)
GetComponentTypeIdByIndex(typeIndex) ==
    IF typeIndex \in DOMAIN m_typeIndexToComponentTypeIdMapping
    THEN m_typeIndexToComponentTypeIdMapping[typeIndex]
    ELSE GetInvalidComponentTypeId

\* Manager::GetComponentTypeIdByName(name)
GetComponentTypeIdByName(name) ==
    IF name \in DOMAIN m_componentNameToIdMapping
    THEN m_componentNameToIdMapping[name]
    ELSE GetInvalidComponentTypeId

\* Manager::GetComponentTypeIndexByTypeId(typeId): m_componentTypeIndexes[typeId],
\* unchecked.  Past the end of the vector the read is undefined: the program
\* stops, or goes on with whatever the memory holds.
GetComponentTypeIndexByTypeId(typeId) ==
    IF typeId < Len(m_componentTypeIndexes)
    THEN { [status |-> "ok", value |-> m_componentTypeIndexes[typeId + 1]] }
    ELSE { [status |-> "crash", value |-> 0] }
         \cup { [status |-> "undefined", value |-> t] : t \in TypeTags \cup { 0 } }

\* Manager::GetComponentNameByTypeId(typeId): find_if over the name map
GetComponentNameByTypeId(typeId) ==
    LET found == { n \in DOMAIN m_componentNameToIdMapping :
                      m_componentNameToIdMapping[n] = typeId }
    IN  IF found /= {}
        THEN CHOOSE n \in found : \A o \in found : n <= o
        ELSE k_invalidComponentName

\* Manager::GetComponentNameByTypeId(typeIndex)
GetComponentNameByTypeIndex(typeIndex) ==
    IF typeIndex \in DOMAIN m_typeIndexToComponentTypeIdMapping
    THEN GetComponentNameByTypeId(m_typeIndexToComponentTypeIdMapping[typeIndex])
    ELSE k_invalidComponentName

RegisterComponentTypeInternal_ForgetsTypeIndex(name, typeIndex, typeId, collection) ==
    [m_componentStorages |-> Append(m_componentStorages, collection),
     m_componentNameToIdMapping |-> m_componentNameToIdMapping @@ (name :> typeId),
     m_componentTypeIndexes |-> m_componentTypeIndexes,
     m_typeIndexToComponentTypeIdMapping |->
         m_typeIndexToComponentTypeIdMapping @@ (typeIndex :> typeId)]

\* Manager::RegisterComponentTypeInternal(name, typeIndex, typeId, collection):
\* emplace keeps an entry that is already there
RegisterComponentTypeInternal(name, typeIndex, typeId, collection) ==
    [m_componentStorages |-> Append(m_componentStorages, collection),
     m_componentNameToIdMapping |-> m_componentNameToIdMapping @@ (name :> typeId),
     m_componentTypeIndexes |-> Append(m_componentTypeIndexes, typeIndex),
     m_typeIndexToComponentTypeIdMapping |->
         m_typeIndexToComponentTypeIdMapping @@ (typeIndex :> typeId)]

\* manager.RegisterComponentType<T>(name): the next type-id and a new collection
RegisterComponentType(name, typeIndex) ==
    /\ RegistryRunning
    /\ Len(m_componentStorages) < MaxTypes
    /\ LET typeId == Len(m_componentStorages)
           r == RegisterComponentTypeInternal(name, typeIndex, typeId, EmptyPool)
       IN  /\ m_componentStorages' = r.m_componentStorages
           /\ m_componentNameToIdMapping' = r.m_componentNameToIdMapping
           /\ m_componentTypeIndexes' = r.m_componentTypeIndexes
           /\ m_typeIndexToComponentTypeIdMapping' = r.m_typeIndexToComponentTypeIdMapping
           /\ registered' = Append(registered,
                  [name |-> name, typeIndex |-> typeIndex, typeId |-> typeId,
                   slot |-> Len(m_componentStorages) + 1])
           /\ registryCall' = Returned("RegisterComponentType", << name, typeIndex >>,
                                       "ok", typeId, FALSE)
    /\ UNCHANGED allButRegistry

\* The components the collections hold.
ComponentCount ==
    LET RECURSIVE Sum(_)
        Sum(i) == IF i = 0 THEN 0
                  ELSE Sum(i - 1) + Cardinality({ k \in 0..(m_componentStorages[i].size - 1) :
                                                     SlotAt(m_componentStorages[i], k).alive })
    IN  Sum(Len(m_componentStorages))

\* The outcomes of Manager::CreateComponentInternal(typeId) for `call`:
\* GetCollection asserts typeId < m_componentStorages.size(); where the assert
\* is compiled out the vector is read past its end and Create() is called
\* through what is found there.
CreateOutcomes(call, key, typeId) ==
    IF typeId < Len(m_componentStorages)
    THEN LET r == CreateComponentInternal(m_componentStorages, typeId)
         IN  { [storages |-> r.storages,
                ret |-> Returned(call, key, "ok", r.index, TRUE)] }
    ELSE { [storages |-> m_componentStorages,
            ret |-> Returned(call, key, st, 0, FALSE)] : st \in {"crash", "undefined"} }

\* Manager::CreateComponentByName(name)
CreateComponentByName(name) ==
    /\ RegistryRunning
    /\ ComponentCount < MaxSlots
    /\ IF name \in DOMAIN m_componentNameToIdMapping
       THEN \E o \in CreateOutcomes("CreateComponentByName", << name >>,
                                    m_componentNameToIdMapping[name]) :
                /\ m_componentStorages' = o.storages
                /\ registryCall' = o.ret
       ELSE /\ registryCall' = Returned("CreateComponentByName", << name >>, "invalid", 0, FALSE)
            /\ UNCHANGED m_componentStorages
    /\ UNCHANGED << m_componentNameToIdMapping, m_componentTypeIndexes,
                    m_typeIndexToComponentTypeIdMapping, registered, allButRegistry >>

\* Manager::CreateComponentByTypeId(typeId)
CreateComponentByTypeId(typeId) ==
    /\ RegistryRunning
    /\ ComponentCount < MaxSlots
    /\ \E o \in CreateOutcomes("CreateComponentByTypeId", << typeId >>, typeId) :
          /\ m_componentStorages' = o.storages
          /\ registryCall' = o.ret
    /\ UNCHANGED << m_componentNameToIdMapping, m_componentTypeIndexes,
                    m_typeIndexToComponentTypeIdMapping, registered, allButRegistry >>

\* A look-up returns `ret`; nothing else happens.
LookedUp(ret) ==
    /\ RegistryRunning
    /\ registryCall' = ret
    /\ UNCHANGED << m_componentStorages, m_componentNameToIdMapping, m_componentTypeIndexes,
                    m_typeIndexToComponentTypeIdMapping, registered, allButRegistry >>

Sentinel(value, invalid) == IF value = invalid THEN "invalid" ELSE "ok"

LookupTypeIdByName(name) ==
    LET v == GetComponentTypeIdByName(name)
    IN  LookedUp(Returned("GetComponentTypeIdByName", << name >>,
                          Sentinel(v, GetInvalidComponentTypeId), v, FALSE))

LookupTypeIdByIndex(typeIndex) ==
    LET v == GetComponentTypeIdByIndex(typeIndex)
    IN  LookedUp(Returned("GetComponentTypeIdByIndex", << typeIndex >>,
                          Sentinel(v, GetInvalidComponentTypeId), v, FALSE))

LookupNameByTypeId(typeId) ==
    LET v == GetComponentNameByTypeId(typeId)
    IN  LookedUp(Returned("GetComponentNameByTypeId", << typeId >>,
                          Sentinel(v, k_invalidComponentName), v, FALSE))

LookupTypeIndexByTypeId(typeId) ==
    \E o \in GetComponentTypeIndexByTypeId(typeId) :
        LookedUp(Returned("GetComponentTypeIndexByTypeId", << typeId >>,
                          o.status, o.value, FALSE))

\* Manager::Destroy() of a manager that holds no system: the collections and
\* the three registry tables are cleared.
DestroyRegistry ==
    /\ RegistryRunning
    /\ pc = Idle
    /\ m_orderedSystems = << >>
    /\ m_componentStorages' = << >>
    /\ m_componentTypeIndexes' = << >>
    /\ m_componentNameToIdMapping' = << >>
    /\ m_typeIndexToComponentTypeIdMapping' = << >>
    /\ registered' = << >>
    /\ registryCall' = Returned("Destroy", << >>, "ok", 0, FALSE)
    /\ UNCHANGED allButRegistry

\* The names and type tags to register with: those in use and the first one
\* that is not (which of the unused ones is taken makes no difference).
NamesToRegister ==
    { n \in Names : n <= Cardinality(DOMAIN m_componentNameToIdMapping) + 1 }

TypeTagsToRegister ==
    { t \in TypeTags : t <= Cardinality(DOMAIN m_typeIndexToComponentTypeIdMapping) + 1 }

NextRegistry ==
    \/ \E n \in NamesToRegister, t \in TypeTagsToRegister : RegisterComponentType(n, t)
    \/ \E n \in Names : CreateComponentByName(n)
    \/ \E t \in TypeIds : CreateComponentByTypeId(t)
    \/ \E n \in Names : LookupTypeIdByName(n)
    \/ \E t \in TypeTags : LookupTypeIdByIndex(t)
    \/ \E t \in TypeIds : LookupNameByTypeId(t)
    \/ \E t \in TypeIds : LookupTypeIndexByTypeId(t)
    \/ DestroyRegistry

SpecRegistry == Init /\ [][NextRegistry]_vars

\* ------------------------------------------------------------- tuple caches
allButTuples == << systemVars, poolVars, registryVars, entityVars, singletonVars >>

\* The type-id lists a caller passes: no list, one type, or two different
\* types in either order.
TypeIdLists ==
    LET ids == 0..(MaxTypes - 1)
    IN  { << >> } \cup { << a >> : a \in ids }
                  \cup { l \in { << a, b >> : a, b \in ids } : l[1] /= l[2] }

RECURSIVE Xor(_, _)
Xor(a, b) ==
    IF a = 0 THEN b
    ELSE IF b = 0 THEN a
    ELSE ((a + b) % 2) + 2 * Xor(a \div 2, b \div 2)

\* ecs::detail::hash_combine(seed, h): seed ^= h + golden + (seed << 6) + (seed >> 2),
\* here on 16-bit words
hash_combine(seed, h) ==
    Xor(seed, (h + 40503 + seed * 64 + (seed \div 4)) % 65536)

\* ComponentTypesListHash(typeIds): the ids are combined in the order given
\* (std::hash of an id taken as the id itself)
ComponentTypesListHash(typeIds) ==
    LET RECURSIVE Fold(_)
        Fold(i) == IF i = 1 THEN typeIds[1]
                   ELSE hash_combine(Fold(i - 1), typeIds[i])
    IN  IF typeIds = << >> THEN 0 ELSE Fold(Len(typeIds))

\* Manager::GetComponentsTupleCache(typeIds): the cache, or nullptr
GetComponentsTupleCache(typeIds) ==
    LET hash == ComponentTypesListHash(typeIds)
    IN  IF hash \in DOMAIN m_tupleCaches
        THEN [found |-> TRUE, cache |-> m_tupleCaches[hash]]
        ELSE [found |-> FALSE, cache |-> << >>]

\* Manager::GetComponentsTuple(typeIds): a view of the cache found
GetComponentsTuple(typeIds) ==
    /\ LET r == GetComponentsTupleCache(typeIds)
       IN  tupleCall' = [call |-> "GetComponentsTuple", key |-> typeIds,
                         found |-> r.found, cache |-> r.cache]
    /\ UNCHANGED << m_tupleCaches, registeredTuples, allButTuples >>

\* Manager::RegisterComponentsTupleIterator(typeIds): emplace keeps a cache
\* that is already there under the hash
RegisterComponentsTupleIterator(typeIds) ==
    /\ IF Len(typeIds) > 0
       THEN m_tupleCaches' = m_tupleCaches @@ (ComponentTypesListHash(typeIds) :> typeIds)
       ELSE UNCHANGED m_tupleCaches
    /\ registeredTuples' = registeredTuples \cup { typeIds }
    /\ tupleCall' = [call |-> "RegisterComponentsTupleIterator", key |-> typeIds,
                     found |-> FALSE, cache |-> << >>]
    /\ UNCHANGED allButTuples

NextTuples ==
    \/ \E l \in TypeIdLists : RegisterComponentsTupleIterator(l)
    \/ \E l \in TypeIdLists : GetComponentsTuple(l)

SpecTuples == Init /\ [][NextTuples]_vars

\* ------------------------------------------------------------------ entities
\* The entity collection: m_entitiesData[id] is the EntityData of entity id
\* (ids count from 1 and are never reused; 0 is the invalid id).  `children`
\* is the entity's children list, head first.
allButEntities == << systemVars, poolVars, registryVars, tupleVars, singletonVars >>

Existing(d) == { e \in 1..Len(d) : d[e].exists }

\* The entities reached from e by following parent ids, e's parent first.
RECURSIVE Above(_, _, _)
Above(d, e, fuel) ==
    IF fuel = 0 \/ d[e].parent = 0 THEN {}
    ELSE { d[e].parent } \cup Above(d, d[e].parent, fuel - 1)

Ancestors(d, e) == Above(d, e, Len(d))

RECURSIVE RefreshSubtree(_, _, _)
\* effective-active of e from its own flag and its parent, then the same for
\* its children, depth first
RefreshSubtree(d, e, fuel) ==
    LET d1 == [d EXCEPT ![e].effectiveActive =
                   d[e].active /\ (d[e].parent = 0 \/ d[d[e].parent].effectiveActive)]
        RECURSIVE Each(_, _)
        Each(dd, i) == IF i > Len(d1[e].children) \/ fuel = 0 THEN dd
                       ELSE Each(RefreshSubtree(dd, d1[e].children[i], fuel - 1), i + 1)
    IN  Each(d1, 1)

RefreshActivation_SkipsChildren(d, e) ==
    [d EXCEPT ![e].effectiveActive =
        d[e].active /\ (d[e].parent = 0 \/ d[d[e].parent].effectiveActive)]

\* EntitiesCollection::RefreshActivation with RefreshChildrenActivation
RefreshActivation(d, e) == RefreshSubtree(d, e, Len(d))

\* AddChild is rejected when the child already has a parent or the link would
\* close a cycle.
AddChildRejected_NoCycleCheck(d, e, c) == d[c].parent /= 0

AddChildRejected(d, e, c) ==
    \/ d[c].parent /= 0
    \/ c = e
    \/ c \in Ancestors(d, e)

\* EntitiesCollection::AddChild(entity, child)
AddChildData(d, e, c) ==
    IF AddChildRejected(d, e, c) THEN d
    ELSE RefreshActivation([d EXCEPT ![e].children = << c >> \o @, ![c].parent = e], c)

\* EntitiesCollection::RemoveChild(entity, child)
RemoveChildData(d, e, c) ==
    IF d[c].parent /= e THEN d
    ELSE RefreshActivation([d EXCEPT ![e].children = EraseFirst(@, c), ![c].parent = 0], c)

RECURSIVE DestroyEntity(_, _, _)
\* EntitiesCollection::DestroyEntity(id): the children first, then the entity
DestroyEntity(d, e, fuel) ==
    LET RECURSIVE Each(_, _)
        Each(dd, i) == IF i > Len(d[e].children) \/ fuel = 0 THEN dd
                       ELSE Each(DestroyEntity(dd, d[e].children[i], fuel - 1), i + 1)
    IN  [Each(d, 1) EXCEPT ![e] = [exists |-> FALSE, parent |-> 0, children |-> << >>,
                                   active |-> FALSE, effectiveActive |-> FALSE]]

\* EntitiesCollection::ClearChildren(entity, destroyChildren)
ClearChildrenData(d, e, destroyChildren) ==
    LET RECURSIVE Each(_, _)
        Each(dd, i) ==
            IF i > Len(d[e].children) THEN dd
            ELSE Each(IF destroyChildren
                      THEN DestroyEntity([dd EXCEPT ![e].children = EraseFirst(@, d[e].children[i])],
                                         d[e].children[i], Len(d))
                      ELSE RemoveChildData(dd, e, d[e].children[i]),
                      i + 1)
    IN  Each(d, 1)

\* EntitiesCollection::CreateEntity()
CreateEntity ==
    /\ Len(m_entitiesData) < MaxEntities
    /\ m_entitiesData' = Append(m_entitiesData,
           [exists |-> TRUE, parent |-> 0, children |-> << >>,
            active |-> TRUE, effectiveActive |-> TRUE])
    /\ entityOp' = [kind |-> "CreateEntity", entity |-> 0, child |-> 0, rejected |-> FALSE]
    /\ UNCHANGED allButEntities

AddChild(e, c) ==
    /\ m_entitiesData' = AddChildData(m_entitiesData, e, c)
    /\ entityOp' = [kind |-> "AddChild", entity |-> e, child |-> c,
                    rejected |-> AddChildRejected(m_entitiesData, e, c)]
    /\ UNCHANGED allButEntities

RemoveChild(e, c) ==
    /\ m_entitiesData' = RemoveChildData(m_entitiesData, e, c)
    /\ entityOp' = [kind |-> "RemoveChild", entity |-> 0, child |-> 0, rejected |-> FALSE]
    /\ UNCHANGED allButEntities

ClearChildren(e, destroyChildren) ==
    /\ m_entitiesData' = ClearChildrenData(m_entitiesData, e, destroyChildren)
    /\ entityOp' = [kind |-> "ClearChildren", entity |-> 0, child |-> 0, rejected |-> FALSE]
    /\ UNCHANGED allButEntities

\* EntitiesCollection::ActivateEntity(entity, activate)
ActivateEntity(e, activate) ==
    /\ m_entitiesData' = RefreshActivation([m_entitiesData EXCEPT ![e].active = activate], e)
    /\ entityOp' = [kind |-> "ActivateEntity", entity |-> 0, child |-> 0, rejected |-> FALSE]
    /\ UNCHANGED allButEntities

NextEntities ==
    \/ CreateEntity
    \/ \E e, c \in Existing(m_entitiesData) : AddChild(e, c)
    \/ \E e, c \in Existing(m_entitiesData) : RemoveChild(e, c)
    \/ \E e \in Existing(m_entitiesData), destroyChildren \in BOOLEAN :
          ClearChildren(e, destroyChildren)
    \/ \E e \in Existing(m_entitiesData), activate \in BOOLEAN : ActivateEntity(e, activate)

SpecEntities == Init /\ [][NextEntities]_vars

\* ------------------------------------------------ systems sharing a class
\* Manager::GetSystemByTypeIndex(typeIndex): the map's entry, 0 for nullptr.
GetSystemByTypeIndex(t) == m_systemsTypeIdMapping[t]

\* The scheduler with registrations of any class, so that two systems held at
\* once can be of the same class.  The type map does not depend on the
\* priorities: every system is of priority 0 and keeps it.
NextSystemTypes ==
    \/ \E t \in Types : RegisterSystem(0, t)
    \/ \E s \in Systems : RemoveSystem(s)
    \/ Update
    \/ InitReturn
    \/ UpdateReturn
    \/ Destroy

SpecSystemTypes == Init /\ [][NextSystemTypes]_vars

\* =================================================================== claims
\* The systems on which callback `what` has been made by the current call, in
\* the order of the calls.
Called(what) ==
    LET sel == SelectSeq(calls, LAMBDA c : c[1] = what)
    IN  [i \in 1..Len(sel) |-> sel[i][2]]

ListAtStart == [i \in 1..Len(orderedAtStart) |-> orderedAtStart[i][1]]

\* The manager is inside the update pass of an Update, or that Update has
\* returned and nothing has been called since.
PassBegun == op = "Update" /\ pc.phase \in {"update", "idle"}

PassDone == op = "Update" /\ pc.phase = "idle"

\* C1: an update pass calls Update on the systems of the ordered list one by
\* one, each once, in nondecreasing order of the priorities they had when the
\* pass began: at every callback of the pass the Update calls made so far are
\* the first systems of that list, and when Update has returned they are the
\* whole list.
C1_UpdateInPriorityOrder ==
    PassBegun =>
        /\ \A i, j \in 1..Len(orderedAtStart) :
              i < j => /\ orderedAtStart[i][2] <= orderedAtStart[j][2]
                       /\ orderedAtStart[i][1] /= orderedAtStart[j][1]
        /\ Called("Update") =
              SubSeq(ListAtStart, 1, IF pc.phase = "update" THEN pc.idx ELSE Len(ListAtStart))

\* A pass has called Update on two systems, the later registered one first, in
\* the order of the priorities of its start, while a priority change made
\* during the pass has the two the other way round.
C1_Witness ==
    /\ pc.phase = "update" /\ pc.idx = 2
    /\ orderedAtStart[1][1] > orderedAtStart[2][1]
    /\ orderedAtStart[1][2] < orderedAtStart[2][2]
    /\ priority[orderedAtStart[1][1]] > priority[orderedAtStart[2][1]]
    /\ Called("Update") = << orderedAtStart[1][1], orderedAtStart[2][1] >>

PositionIn(what, s) == IndexOf(calls, << what, s >>)

\* C2: a system registered during an update pass is not in the ordered list
\* and gets no Update before it is initialized; it waits in m_newSystems, marked
\* for insertion.  The Update that calls its Init has inserted it into the
\* ordered list first, so that the pass of that Update has it in its list and
\* calls its Update, after its Init (unless it has been removed meanwhile).
C2_DeferredRegistration ==
    \A s \in registeredInPass :
        /\ initCount[s] = 0 =>
              /\ << s, TRUE >> \in Range(m_newSystems)
              /\ s \notin Range(m_orderedSystems)
              /\ s \notin Range(Called("Update"))
        /\ s \in Range(Called("Init")) =>
              /\ op = "Update"
              /\ s \in Range(m_orderedSystems) \/ s \in Range(Called("Destroy"))
              /\ PassBegun /\ s \notin Range(Called("Destroy")) => s \in Range(ListAtStart)
              /\ PassDone /\ s \in Range(ListAtStart) => s \in Range(Called("Update"))
              /\ s \in Range(Called("Update")) => PositionIn("Init", s) < PositionIn("Update", s)

\* An Update has initialized a system that was registered during the pass
\* before, and its pass has called the system's Update first, ahead of a system
\* of higher priority value that was registered earlier.
C2_Witness ==
    /\ PassDone
    /\ Len(ListAtStart) >= 2
    /\ ListAtStart[1] \in registeredInPass
    /\ ListAtStart[1] \in Range(Called("Init"))
    /\ ListAtStart[1] \in Range(m_systemsStorage)
    /\ ListAtStart[1] > ListAtStart[2]
    /\ orderedAtStart[1][2] < orderedAtStart[2][2]
    /\ Called("Update")[1] = ListAtStart[1]

Registered == 1..Len(priority)

\* C3 (as claimed): a system passed to RemoveSystem during a pass stays in the
\* ordered list while the pass runs; the Update that ran the pass has called
\* its Destroy and erased it when it returns, and no later pass calls Update
\* on it; RemoveSystem outside a pass has done both when it returns.
C3_RemovalDeferredThenFinal ==
    /\ m_isUpdatingSystems =>
          \A s \in Range(m_removedSystems) :
              s \in Range(ListAtStart) => s \in Range(m_orderedSystems)
    /\ PassDone =>
          /\ m_removedSystems = << >>
          /\ \A s \in Range(Called("Destroy")) : s \notin Range(m_orderedSystems)
    /\ \A s \in Registered :
          removedBy[s] = "drain" /\ pc.phase = "update" => m_orderedSystems[pc.idx] /= s
    /\ op = "RemoveSystem" /\ pc = Idle =>
          /\ Len(calls) = 1 /\ calls[1][1] = "Destroy"
          /\ calls[1][2] \notin Range(m_orderedSystems)

\* C4 (as claimed): two systems of equal priority at the start of a pass are
\* in the list in the order of their registration.
C4_RegistrationOrderBreaksTies ==
    pc.phase = "update" =>
        \A i, j \in 1..Len(orderedAtStart) :
            i < j /\ orderedAtStart[i][2] = orderedAtStart[j][2] => ListAtStart[i] < ListAtStart[j]

\* C4 (amended): as long as no priority has been changed, two systems of equal
\* priority at the start of a pass are in the list in the order in which they
\* were inserted into it, which is the order of registration for two systems
\* both registered outside a pass, or both during a pass.
C4_InsertionOrderBreaksTies ==
    pc.phase = "update" /\ ~priorityEverChanged =>
        \A i, j \in 1..Len(orderedAtStart) :
            i < j /\ orderedAtStart[i][2] = orderedAtStart[j][2] =>
                /\ IndexOf(insertedOrder, ListAtStart[i]) < IndexOf(insertedOrder, ListAtStart[j])
                /\ (ListAtStart[i] \in registeredInPass) = (ListAtStart[j] \in registeredInPass)
                      => ListAtStart[i] < ListAtStart[j]

\* A pass runs, with no priority ever changed, in which a system registered
\* during an earlier pass comes behind a system of equal priority that was
\* registered after it, outside a pass.
C4_Witness ==
    /\ pc.phase = "update" /\ ~priorityEverChanged
    /\ \E i, j \in 1..Len(orderedAtStart) :
          /\ i < j
          /\ orderedAtStart[i][2] = orderedAtStart[j][2]
          /\ ListAtStart[i] > ListAtStart[j]
          /\ ListAtStart[j] \in registeredInPass

\* C5 (as claimed): the Init calls of one Update are made in priority order.
C5_InitInPriorityOrder ==
    ~priorityEverChanged =>
        \A i, j \in 1..Len(Called("Init")) :
            i < j => priority[Called("Init")[i]] <= priority[Called("Init")[j]]

\* C5 (amended): the Init calls of one Update are made in the order of
\* registration, and all of them before the first Update call.
C5_InitInRegistrationOrder ==
    /\ \A i, j \in 1..Len(Called("Init")) : i < j => Called("Init")[i] < Called("Init")[j]
    /\ \A i, j \in 1..Len(calls) : i < j /\ calls[i][1] = "Update" => calls[j][1] /= "Init"

\* A (registered first, the higher priority value) and B: the first Update has
\* called A.Init, B.Init, B.Update, A.Update.
C5_Witness ==
    /\ ~priorityEverChanged
    /\ priority = << 1, 0 >>
    /\ calls = << << "Init", 1 >>, << "Init", 2 >>, << "Update", 2 >>, << "Update", 1 >> >>

\* C6 (as claimed): a system registered while no pass is running is in the
\* ordered list from the registration on (at its priority position: the list is
\* sorted unless a priority change is pending), no callback is made by the
\* registration, and the system waits in m_newSystems until its Init is called,
\* which happens before it gets an Update.
C6_ImmediateRegistrationLazyInit ==
    /\ op = "RegisterSystem" /\ pc = Idle => calls = << >>
    /\ ~m_systemPrioritiesChanged =>
          \A i, j \in 1..Len(m_orderedSystems) :
              i < j => priority[m_orderedSystems[i]] <= priority[m_orderedSystems[j]]
    /\ \A s \in Registered \ registeredInPass :
          /\ removedBy[s] = "none" => s \in Range(m_orderedSystems)
          /\ initCount[s] = 0 /\ pc.phase /= "update" => << s, FALSE >> \in Range(m_newSystems)
          /\ s \in Range(Called("Update")) => initCount[s] > 0

\* C7: while m_isUpdatingSystems is set the ordered list is the list the pass
\* began with; a system registered meanwhile is held and waits in m_newSystems,
\* marked for insertion, and is not in the list; a system passed to
\* RemoveSystem waits in m_removedSystems and is still held.
C7_ListFrozenDuringPass ==
    m_isUpdatingSystems =>
        /\ m_orderedSystems = ListAtStart
        /\ \A k \in 1..Len(m_newSystems) :
              /\ m_newSystems[k][2] = TRUE
              /\ m_newSystems[k][1] \in registeredInPass
        /\ \A s \in Range(m_systemsStorage) :
              (s \in Range(m_orderedSystems)) /= (<< s, TRUE >> \in Range(m_newSystems))
        /\ \A s \in Range(m_removedSystems) : s \in Range(m_systemsStorage)

\* The last Update callback of a pass is running, after a RegisterSystem and
\* a RemoveSystem of a system of the list were made during the pass.
C7_Witness ==
    /\ m_isUpdatingSystems
    /\ pc.idx = Len(m_orderedSystems)
    /\ Len(m_orderedSystems) >= 2
    /\ m_newSystems /= << >>
    /\ m_removedSystems /= << >>
    /\ m_removedSystems[1] \in Range(m_orderedSystems)

\* C8 (as claimed): Manager::Destroy calls Destroy on the system of higher
\* priority value before the system of lower priority value.
C8_TeardownInReversePriorityOrder ==
    op = "Destroy" /\ pc = Idle =>
        \A i, j \in 1..Len(orderedAtStart) :
            orderedAtStart[i][2] > orderedAtStart[j][2] =>
                PositionIn("Destroy", ListAtStart[i]) < PositionIn("Destroy", ListAtStart[j])

\* C8 (amended): Manager::Destroy calls Destroy on the systems of the ordered
\* list in the order of the list, the update order: lower priority values
\* first, unless a priority change is still waiting for its sort.
C8_TeardownInListOrder ==
    op = "Destroy" /\ pc = Idle =>
        /\ Called("Destroy") = ListAtStart
        /\ Len(calls) = Len(ListAtStart)
        /\ ~m_systemPrioritiesChanged =>
              \A i, j \in 1..Len(orderedAtStart) :
                  i < j => orderedAtStart[i][2] <= orderedAtStart[j][2]

\* Manager::Destroy has destroyed two systems of different priority.
C8_Witness ==
    /\ op = "Destroy" /\ pc = Idle
    /\ Len(calls) >= 2
    /\ orderedAtStart[1][2] < orderedAtStart[2][2]
    /\ calls[1] = << "Destroy", ListAtStart[1] >>

\* ------------------------------------------------------------ pool claims
Live(h) == handles[h].live

\* C9: a handle reads back its component (the pointer CreateComponent gave
\* out and the value last written) while the component is alive; once the
\* component has been destroyed a read through the handle returns null, in
\* every later state, slot reuse included, and the slot's generation is above
\* the handle's.
C9_StaleHandleReadsNull ==
    \A h \in DOMAIN handles :
        /\ Live(h) => GetComponent(h) = [ptr |-> handles[h].ptr, value |-> handles[h].value]
        /\ ~Live(h) =>
              /\ GetComponent(h) = Null
              /\ SlotAt(GetCollection(m_componentStorages, h.typeId), h.index).generation
                     > h.generation

\* a destroyed component's slot has been reused by a later create, and the new
\* component has been written
C9_Witness ==
    \E h, g \in DOMAIN handles :
        /\ h.index = g.index
        /\ ~Live(h)
        /\ Live(g)
        /\ handles[g].value /= 0
        /\ GetComponent(g) /= Null

\* C10: a create or destroy leaves every live component of another slot where
\* it was and with the payload it had, also when the create grows the pool by
\* a chunk or reuses a freed slot.
C10_OtherSlotsUntouched ==
    [][\A h \in DOMAIN handles :
          (Live(h) /\ poolOp'.kind \in {"create", "destroy"} /\ poolOp'.index /= h.index) =>
              /\ GetComponent(h)' = GetComponent(h)
              /\ GetComponent(h) /= Null
              /\ h \in DOMAIN handles' /\ handles'[h] = handles[h]]_vars

\* the pool has grown by a second chunk and the last create has reused a freed
\* slot, while a written component lives in another slot
C10_Witness ==
    /\ Len(GetCollection(m_componentStorages, 0).chunks) > 1
    /\ poolOp.kind = "create"
    /\ \E h, g \in DOMAIN handles :
          /\ h.index = poolOp.index
          /\ ~Live(h)
          /\ g.index /= poolOp.index
          /\ Live(g)
          /\ handles[g].value /= 0
          /\ GetComponent(g) = [ptr |-> handles[g].ptr, value |-> handles[g].value]

\* -------------------------------------------------------- singleton claims
LastCall == IF lifecycle = << >> THEN "none" ELSE lifecycle[Len(lifecycle)]

\* C18: Manager::Get returns null before the first InitECSManager and after
\* every ShutdownECSManager, and a live manager after an InitECSManager until
\* the next ShutdownECSManager; a ShutdownECSManager that finds no instance
\* changes nothing.
C18_GetNullOutsideLifetime ==
    /\ [](/\ LastCall \in {"none", "Shutdown"} => Get = 0
          /\ LastCall = "Init" => (Get /= 0 /\ Get \in liveInstances))
    /\ [][(ManagerInstance = 0 /\ lifecycle' = Append(lifecycle, "Shutdown")) =>
              UNCHANGED << ManagerInstance, liveInstances >>]_vars

\* an instance was made, shut down, a second shutdown found none, and a new
\* instance was made
C18_Witness ==
    /\ Len(lifecycle) >= 4
    /\ SubSeq(lifecycle, Len(lifecycle) - 3, Len(lifecycle))
           = << "Init", "Shutdown", "Shutdown", "Init" >>
    /\ Get /= 0
    /\ Get \in liveInstances

\* C19 (as claimed): the Manager objects made by InitECSManager and not yet
\* destroyed number 1 after an InitECSManager and 0 otherwise.
C19_AtMostOneInstance ==
    Cardinality(liveInstances) = IF LastCall = "Init" THEN 1 ELSE 0

\* C20 (as claimed): every registered system has Init called at most once and,
\* when a pass calls its Update, exactly once and earlier, wherever it was
\* registered from: the program, an Init callback or an Update callback.
C20_InitOnceBeforeUpdate ==
    \A s \in Registered :
        /\ initCount[s] <= 1
        /\ s \in Range(Called("Update")) =>
              /\ initCount[s] = 1
              /\ s \in Range(Called("Init")) => PositionIn("Init", s) < PositionIn("Update", s)

\* --------------------------------------------------------- registry claims
RegisteredTypeIds == 0..(Len(m_componentStorages) - 1)

\* C13 (as claimed): for every registered type-id t the look-ups round-trip:
\* the id of the name of t is t, the id of the type tag of t is t, and the
\* name found through the type tag is the name found through t.
C13_IdentityRoundTrips ==
    \A t \in RegisteredTypeIds :
        /\ GetComponentTypeIdByName(GetComponentNameByTypeId(t)) = t
        /\ \A o \in GetComponentTypeIndexByTypeId(t) :
              /\ GetComponentTypeIdByIndex(o.value) = t
              /\ GetComponentNameByTypeIndex(o.value) = GetComponentNameByTypeId(t)

\* C14: after N registrations the type-ids given out are 0..N-1 in
\* registration order, the collections vector and the type tag vector have
\* length N, with the tag of each registration at its type-id, and every
\* type-id in the name map and in the type tag map is below N and is the one
\* of the registration that put the entry there, whose collection is at that
\* index.
C14_TypeIdsContiguous ==
    LET N == Len(m_componentStorages)
    IN  /\ Len(registered) = N
        /\ \A i \in 1..N : registered[i].typeId = i - 1 /\ registered[i].slot = i
        /\ Len(m_componentTypeIndexes) = N
        /\ \A i \in 1..N : m_componentTypeIndexes[i] = registered[i].typeIndex
        /\ \A n \in DOMAIN m_componentNameToIdMapping :
              /\ m_componentNameToIdMapping[n] < N
              /\ registered[m_componentNameToIdMapping[n] + 1].name = n
        /\ \A g \in DOMAIN m_typeIndexToComponentTypeIdMapping :
              /\ m_typeIndexToComponentTypeIdMapping[g] < N
              /\ registered[m_typeIndexToComponentTypeIdMapping[g] + 1].typeIndex = g

\* a second type has just been registered and was given type-id 1
C14_Witness ==
    /\ registryCall.call = "RegisterComponentType"
    /\ registryCall.value = 1
    /\ Len(m_componentStorages) = 2
    /\ Cardinality(DOMAIN m_componentNameToIdMapping) = 2
    /\ Cardinality(DOMAIN m_typeIndexToComponentTypeIdMapping) = 2

\* C15 (as claimed): CreateComponentByName with a name that is not registered
\* and CreateComponentByTypeId with a type-id that is not registered return
\* the invalid handle, without a failure and without creating a component.
C15_UnknownCreateReturnsInvalid ==
    /\ (registryCall.call = "CreateComponentByName"
            /\ registryCall.key[1] \notin DOMAIN m_componentNameToIdMapping) =>
           (registryCall.status = "invalid" /\ ~registryCall.created)
    /\ (registryCall.call = "CreateComponentByTypeId"
            /\ registryCall.key[1] \notin RegisteredTypeIds) =>
           (registryCall.status = "invalid" /\ ~registryCall.created)

\* C16 (as claimed): a look-up with a key that is not registered returns the
\* invalid sentinel (the invalid type-id, the invalid name) and
\* GetComponentTypeIndexByTypeId with such a type-id does not fail.
C16_UnknownLookupReturnsSentinel ==
    /\ (registryCall.call = "GetComponentTypeIdByName"
            /\ registryCall.key[1] \notin DOMAIN m_componentNameToIdMapping) =>
           registryCall.value = GetInvalidComponentTypeId
    /\ (registryCall.call = "GetComponentTypeIdByIndex"
            /\ registryCall.key[1] \notin DOMAIN m_typeIndexToComponentTypeIdMapping) =>
           registryCall.value = GetInvalidComponentTypeId
    /\ (registryCall.call = "GetComponentNameByTypeId"
            /\ registryCall.key[1] \notin RegisteredTypeIds) =>
           registryCall.value = k_invalidComponentName
    /\ (registryCall.call = "GetComponentTypeIndexByTypeId"
            /\ registryCall.key[1] \notin RegisteredTypeIds) =>
           registryCall.status /= "crash"

\* ------------------------------------------------------ tuple cache claims
\* C17 (as claimed): a query resolves to the cache that
\* RegisterComponentsTupleIterator created for its set of component types,
\* whatever the order the types are given in, and to no cache when that set was
\* never registered (for a query that names at least one type).
C17_CacheKeyedBySortedList ==
    (tupleCall.call = "GetComponentsTuple" /\ tupleCall.key /= << >>) =>
        IF \E l \in registeredTuples : l /= << >> /\ Range(l) = Range(tupleCall.key)
        THEN tupleCall.found /\ Range(tupleCall.cache) = Range(tupleCall.key)
        ELSE ~tupleCall.found

\* ----------------------------------------------------------- entity claims
Entities == Existing(m_entitiesData)

\* C11: every entity is effective-active exactly when its own active flag is
\* set and it has no parent or its parent is effective-active, in the state
\* each call leaves, so that a change at an ancestor has reached the whole
\* subtree when the call returns.
C11_EffectiveActive ==
    \A e \in Entities :
        m_entitiesData[e].effectiveActive =
            (m_entitiesData[e].active
                /\ (m_entitiesData[e].parent = 0
                       \/ m_entitiesData[m_entitiesData[e].parent].effectiveActive))

\* ActivateEntity has switched off the root of a chain of three: the two below
\* keep their own flag and are not effective-active
C11_Witness ==
    /\ entityOp.kind = "ActivateEntity"
    /\ \E a, b, c \in Entities :
          /\ m_entitiesData[a].parent = 0 /\ ~m_entitiesData[a].active
          /\ m_entitiesData[b].parent = a /\ m_entitiesData[b].active
          /\ m_entitiesData[c].parent = b /\ m_entitiesData[c].active
          /\ ~m_entitiesData[b].effectiveActive
          /\ ~m_entitiesData[c].effectiveActive

Occurrences(list, x) == Cardinality({ i \in 1..Len(list) : list[i] = x })

Forest ==
    \A e \in Entities :
        /\ m_entitiesData[e].parent /= 0 =>
              /\ m_entitiesData[e].parent \in Entities
              /\ Occurrences(m_entitiesData[m_entitiesData[e].parent].children, e) = 1
        /\ \A c \in Range(m_entitiesData[e].children) :
              /\ c \in Entities
              /\ m_entitiesData[c].parent = e
        /\ e \notin Ancestors(m_entitiesData, e)

\* C12: the entities form a forest (an entity with parent P is exactly once in
\* P's children list, every entry of a children list has the owner of the list
\* as its parent, no entity is among its own ancestors), and an AddChild whose
\* child has a parent already or is the entity or one of its ancestors is
\* rejected and leaves the entities as they were.
C12_Forest ==
    /\ []Forest
    /\ [][(/\ entityOp'.kind = "AddChild"
           /\ entityOp' /= entityOp
           /\ \/ m_entitiesData[entityOp'.child].parent /= 0
              \/ entityOp'.child = entityOp'.entity
              \/ entityOp'.child \in Ancestors(m_entitiesData, entityOp'.entity)) =>
              (entityOp'.rejected /\ m_entitiesData' = m_entitiesData)]_vars

\* AddChild(bottom, root) on a chain of three has been rejected: the chain is
\* as it was
C12_Witness ==
    /\ entityOp.kind = "AddChild"
    /\ entityOp.rejected
    /\ m_entitiesData[entityOp.child].parent = 0
    /\ \E b \in Entities :
          /\ m_entitiesData[entityOp.entity].parent = b
          /\ m_entitiesData[b].parent = entityOp.child
          /\ m_entitiesData[entityOp.child].children = << b >>

\* ------------------------------------------------- system lifetime claims
\* The systems DoRemoveSystem has destroyed and erased from the storage.
Removed == { s \in Registered : removedBy[s] \in {"RemoveSystem", "drain"} }

\* The callbacks the step makes: a top-level call starts a new record, a step
\* inside Manager::Update extends the record of that Update.
NewCalls == IF pc = Idle THEN calls' ELSE SubSeq(calls', Len(calls) + 1, Len(calls'))

CallsOn(cs, s) == SelectSeq(cs, LAMBDA c : c[2] = s)

\* C21 (as claimed): once DoRemoveSystem has destroyed and erased a system, no
\* step of the manager calls Init, Update or Destroy on it or has it in the
\* ordered list, and the step that removes a system calls its Destroy once and
\* makes no other callback on it.
C21_RemovedIsFinal ==
    [][\A s \in Registered :
          /\ s \in Removed =>
                /\ s \notin Range(m_orderedSystems')
                /\ CallsOn(NewCalls, s) = << >>
          /\ s \notin Removed /\ s \in DOMAIN removedBy' /\ removedBy'[s] \in {"RemoveSystem", "drain"} =>
                CallsOn(NewCalls, s) = << << "Destroy", s >> >>]_vars

\* Manager::Destroy has returned and nothing has been called since.
DestroyDone == op = "Destroy" /\ pc = Idle

\* C22 (as claimed): when Manager::Destroy has returned, the ordered list, the
\* system storage, the type map, m_newSystems and m_removedSystems hold no
\* system, and every system it called Destroy on had its Init called before;
\* an Update that follows makes no callback.
C22_DestroyLeavesNothing ==
    /\ [](DestroyDone =>
            /\ m_orderedSystems = << >>
            /\ m_systemsStorage = << >>
            /\ \A t \in Types : m_systemsTypeIdMapping[t] = 0
            /\ m_newSystems = << >>
            /\ m_removedSystems = << >>
            /\ \A s \in Range(Called("Destroy")) : initCount[s] >= 1)
    /\ [][DestroyDone /\ op' = "Update" => calls' = << >>]_vars

\* The systems of class t held in the system storage.
HeldOfType(t) == { s \in Range(m_systemsStorage) : sysType[s] = t }

\* C23 (as claimed): GetSystemByTypeIndex(T) returns a system exactly when the
\* storage holds a system of class T, and the system returned is one of those
\* held, also when two systems of one class were registered and one of them
\* has been removed.
C23_LookupMatchesStorage ==
    \A t \in Types :
        /\ GetSystemByTypeIndex(t) /= 0 <=> HeldOfType(t) /= {}
        /\ GetSystemByTypeIndex(t) /= 0 => GetSystemByTypeIndex(t) \in HeldOfType(t)

====
